---------------------------- MODULE Spec2Model ----------------------------
(***************************************************************************)
(* Physics-to-geometry derivation engine of the impactor design tools:     *)
(* PhysicsSolver (physics_solver.py), CADTemplates (templates.py),         *)
(* AgenticCADSystem (agent_engine.py), create_multi_stage_impactor         *)
(* (create_impactor.py) and the Stokes verification script                 *)
(* (verify_cutpoint.py).                                                   *)
(*                                                                         *)
(* Numbers.  The code computes in floating point, on values that may be    *)
(* negative reals or (after a fractional power of a negative real)         *)
(* complex.  A number is modelled in polar form [mag, ph]: a fixed-point   *)
(* magnitude and a phase in multiples of 60 degrees (0 = positive real,    *)
(* 3 = negative real, anything else = not real).  Products add phases,     *)
(* quotients subtract them, the principal cube root of a negative real     *)
(* has phase 1: exactly what Python's float and complex arithmetic give.   *)
(*                                                                         *)
(* Units of the magnitudes:                                                *)
(*   flow rate            0.1 LPM          cut-point          0.1 um       *)
(*   Stk (input)          0.01             S/W, T/W ratios    0.1          *)
(*   nozzle diameter (m)  1e-5 m           all mm dimensions  0.001 mm     *)
(*   jet velocity         0.001 m/s        Reynolds number    1            *)
(*   Stokes number (out)  0.0001                                           *)
(* The cube root is the floor cube root at 1e-5 m; every other quotient    *)
(* is an exact floor of the rational the code's formula denotes.           *)
(***************************************************************************)
EXTENDS Integers, Sequences, FiniteSets, TLC

(***************************************************************************)
(* Fixed-point arithmetic                                                  *)
(***************************************************************************)
Abs(x) == IF x < 0 THEN -x ELSE x

\* phase of a real input: 0 for x >= 0, 3 (180 degrees) for x < 0
PhaseOf(x) == IF x < 0 THEN 3 ELSE 0

\* a number in polar form; a zero has phase 0
Polar(m, p) == [mag |-> m, ph |-> IF m = 0 THEN 0 ELSE p % 6]

Real(x) == Polar(Abs(x), PhaseOf(x))

IsReal(z) == z.ph \in {0, 3}

IsPositive(z) == z.ph = 0 /\ z.mag > 0

\* the signed value of a real number
Val(z) == IF z.ph = 3 THEN -z.mag ELSE z.mag

\* one binary step of the long multiplication: from h = <<q, r>> with
\* a * (b \div 2) = q * c + r to the <<q, r>> of a * b, never exceeding 2 * c
MulDivStep(h, a, b, c) ==
  LET c1  == IF h[2] >= c - h[2] THEN 1 ELSE 0
      r2n == IF h[2] >= c - h[2] THEN h[2] - (c - h[2]) ELSE h[2] + h[2]
      add == IF b % 2 = 1 THEN a ELSE 0
      am  == add % c
      c2  == IF r2n >= c - am THEN 1 ELSE 0
      r3  == IF r2n >= c - am THEN r2n - (c - am) ELSE r2n + am
  IN  <<2 * h[1] + c1 + (add \div c) + c2, r3>>

\* <<q, r>> with a * b = q * c + r and 0 <= r < c, without forming a * b
RECURSIVE MulDivQR(_, _, _)
MulDivQR(a, b, c) ==
  IF b = 0 THEN <<0, 0>>
  ELSE CHOOSE qr \in {MulDivStep(h, a, b, c) : h \in {MulDivQR(a, b \div 2, c)}} : TRUE

\* floor(a * b / c)
MulDiv(a, b, c) == MulDivQR(a, b, c)[1]

\* floor cube root by bisection: the r in lo..hi with r^3 <= x < (r+1)^3
RECURSIVE CbrtIn(_, _, _)
CbrtIn(x, lo, hi) ==
  IF lo >= hi THEN lo
  ELSE LET mid == (lo + hi + 1) \div 2
       IN  IF mid * mid * mid <= x THEN CbrtIn(x, mid, hi)
           ELSE CbrtIn(x, lo, mid - 1)

\* 1290 is the largest root whose cube is below 2^31
ICbrt(x) == CbrtIn(x, 0, 1290)

(***************************************************************************)
(* PhysicsSolver (physics_solver.py)                                       *)
(***************************************************************************)
\* math.pi as a rational, 355/113 (relative error 8.5e-8)
PiNum == 355
PiDen == 113

\* PhysicsSolver.__init__ defaults
air_viscosity == 181            \* 1.81e-5 Pa*s, in 1e-7 Pa*s
rho_air == 12                   \* 1.2 kg/m^3, in 0.1 kg/m^3
particle_density_kgm3 == 1000   \* kg/m^3

\* default of the stk_50 parameter, 0.24
STK_50_DEFAULT == 24

\* a PhysicsSolver object: the three fields __init__ assigns
PhysicsSolver(av, ra, pd) ==
  [air_viscosity |-> av, rho_air |-> ra, particle_density_kgm3 |-> pd]

\* PhysicsSolver(): every parameter at its default
DefaultSolver == PhysicsSolver(air_viscosity, rho_air, particle_density_kgm3)

\* a slip of SolverAfter: the method keeps a rescaled viscosity on self
SolverAfter_ViscosityWritten(self) == [self EXCEPT !.air_viscosity = @ + 1]

\* a slip of SolverAfter: the method keeps a corrected air density on self
SolverAfter_RhoAirWritten(self) == [self EXCEPT !.rho_air = @ + 1]

\* the object after a call of any of its methods: none of them assigns to
\* an attribute of self
SolverAfter(self) == self

\* the outcome of a call: a value returned or an exception raised
Returned(v) == [status |-> "returned", exc |-> "", value |-> v]
Raised(e, v) == [status |-> "raised", exc |-> e, value |-> v]

\* a slip of NozzleNum: d50_m not squared
NozzleNum_Linear(self, flow_rate_lpm, target_cutpoint_microns) ==
  Polar(4 * self.particle_density_kgm3 * Abs(target_cutpoint_microns)
          * Abs(flow_rate_lpm),
        PhaseOf(flow_rate_lpm) + PhaseOf(target_cutpoint_microns))

\* a slip of NozzleNum: the factor 4 of the jet area left out
NozzleNum_NoFour(self, flow_rate_lpm, target_cutpoint_microns) ==
  Polar(self.particle_density_kgm3
          * (target_cutpoint_microns * target_cutpoint_microns)
          * Abs(flow_rate_lpm),
        PhaseOf(flow_rate_lpm) + 2 * PhaseOf(target_cutpoint_microns))

\* num = 4.0 * rho_p * d50_m**2 * q_m3s, in units of 1e-14 / 600000
NozzleNum(self, flow_rate_lpm, target_cutpoint_microns) ==
  Polar(4 * self.particle_density_kgm3
          * (target_cutpoint_microns * target_cutpoint_microns)
          * Abs(flow_rate_lpm),
        PhaseOf(flow_rate_lpm) + 2 * PhaseOf(target_cutpoint_microns))

\* den = 9.0 * pi * viscosity * stk_50 * nozzle_count, in units of
\* 1 / (PiDen * 1e9)
NozzleDen(self, nozzle_count, stk_50) ==
  Polar(9 * PiNum * self.air_viscosity * Abs(stk_50) * Abs(nozzle_count),
        PhaseOf(stk_50) + PhaseOf(nozzle_count))

\* (num / den) in units of (1e-5 m)^3:
\*   num/den = n * 1e-14/6e5 * PiDen*1e9 / d  m^3 = n * PiDen * 1e5 / (6 d)
NozzleRatio(num, den) ==
  Polar(MulDiv(num.mag, PiDen * 100000, 6 * den.mag), num.ph - den.ph + 6)

\* x ** (1/3): the real root of x >= 0, the principal complex root
\* (phase 60 degrees) of x < 0
CubeRoot(x) == Polar(ICbrt(x.mag), IF x.ph = 3 THEN 1 ELSE 0)

\* calculate_nozzle_diameter: the nozzle diameter in 1e-5 m, or the
\* ZeroDivisionError of num / den
calculate_nozzle_diameter(self, flow_rate_lpm, target_cutpoint_microns, nozzle_count, stk_50) ==
  LET num == NozzleNum(self, flow_rate_lpm, target_cutpoint_microns)
      den == NozzleDen(self, nozzle_count, stk_50)
  IN  IF den.mag = 0 THEN Raised("ZeroDivisionError", Real(0))
      ELSE Returned(CubeRoot(NozzleRatio(num, den)))

\* a slip of JetArea: the area of one nozzle, nozzle_count left out
JetArea_OneNozzle(nozzle_count, nozzle_diam_m) ==
  Polar(PiNum * (nozzle_diam_m.mag * nozzle_diam_m.mag), 2 * nozzle_diam_m.ph)

\* jet_area_m2 = nozzle_count * pi * (nozzle_diam_m / 2)**2, in units of
\* 1e-10 / (4 * PiDen) m^2
JetArea(nozzle_count, nozzle_diam_m) ==
  Polar(Abs(nozzle_count) * PiNum * (nozzle_diam_m.mag * nozzle_diam_m.mag),
        PhaseOf(nozzle_count) + 2 * nozzle_diam_m.ph)

\* a slip of JetVelocity: q_m3s from a floor division, (flow // 1000) / 60,
\* which is 0 for every flow below 1000 LPM
JetVelocity_FloorDiv(flow_rate_lpm, jet_area_m2) ==
  Polar(MulDiv((Abs(flow_rate_lpm) \div 10000) * 4 * PiDen, 100000000,
               6 * jet_area_m2.mag),
        PhaseOf(flow_rate_lpm) - jet_area_m2.ph + 6)

\* jet_velocity = q_m3s / jet_area_m2, in 0.001 m/s:
\*   (f / 6e5) * 4 * PiDen * 1e10 / a  m/s = f * 4 * PiDen * 1e8 / (6 a) mm/s
JetVelocity(flow_rate_lpm, jet_area_m2) ==
  Polar(MulDiv(Abs(flow_rate_lpm) * 4 * PiDen, 100000000, 6 * jet_area_m2.mag),
        PhaseOf(flow_rate_lpm) - jet_area_m2.ph + 6)

\* re = (rho_air * jet_velocity * nozzle_diam_m) / air_viscosity:
\*   (r/10) * (v/1e3) * (d/1e5) / (mu/1e7) = r * v * d / (100 * mu)
Reynolds(self, jet_velocity, nozzle_diam_m) ==
  Polar((self.rho_air * jet_velocity.mag * nozzle_diam_m.mag)
          \div (100 * self.air_viscosity),
        jet_velocity.ph + nozzle_diam_m.ph)

\* calculate_reynolds: <<re, jet_velocity>>, or the ZeroDivisionError of
\* q_m3s / jet_area_m2
calculate_reynolds(self, flow_rate_lpm, nozzle_count, nozzle_diam_m) ==
  LET jet_area_m2  == JetArea(nozzle_count, nozzle_diam_m)
      jet_velocity == JetVelocity(flow_rate_lpm, jet_area_m2)
  IN  IF jet_area_m2.mag = 0
      THEN Raised("ZeroDivisionError", <<Real(0), Real(0)>>)
      ELSE Returned(<<Reynolds(self, jet_velocity, nozzle_diam_m), jet_velocity>>)

\* d_mm = d_m * 1000.0: from 1e-5 m to 0.001 mm
ToMillimetres(d_m) == Polar(d_m.mag * 10, d_m.ph)

\* a slip of TimesRatio: the ratio left out
TimesRatio_NoRatio(d_mm, ratio) == d_mm

\* d_mm * ratio, the ratio in tenths
TimesRatio(d_mm, ratio) == Polar((d_mm.mag * Abs(ratio)) \div 10, d_mm.ph + PhaseOf(ratio))

\* the dictionary get_geometric_constraints returns
Constraints(d_mm, vel, re, s, t) ==
  [nozzle_diameter_mm |-> d_mm, jet_velocity_ms |-> vel, reynolds_number |-> re,
   jet_to_plate_mm |-> s, throat_length_mm |-> t]

NoConstraints == Constraints(Real(0), Real(0), Real(0), Real(0), Real(0))

\* get_geometric_constraints: stk_50 is not passed on, so the diameter is
\* always solved for the default Stk50
get_geometric_constraints(self, flow_rate_lpm, target_cutpoint_microns, nozzle_count, s_w_ratio, t_w_ratio) ==
  LET d    == calculate_nozzle_diameter(self, flow_rate_lpm,
                                        target_cutpoint_microns, nozzle_count,
                                        STK_50_DEFAULT)
      d_m  == d.value
      d_mm == ToMillimetres(d_m)
      rv   == calculate_reynolds(self, flow_rate_lpm, nozzle_count, d_m)
  IN  IF d.status = "raised" THEN Raised(d.exc, NoConstraints)
      ELSE IF rv.status = "raised" THEN Raised(rv.exc, NoConstraints)
      ELSE Returned(Constraints(d_mm, rv.value[2], rv.value[1],
                                TimesRatio(d_mm, s_w_ratio),
                                TimesRatio(d_mm, t_w_ratio)))

(***************************************************************************)
(* CassetteProfile (config.py); dimensions in 0.001 mm                     *)
(***************************************************************************)
CassetteProfile(od, ifd, boss, socket, ih, wt) ==
  [outer_diameter |-> od, inner_flow_diameter |-> ifd,
   male_boss_diameter |-> boss, female_socket_diameter |-> socket,
   interface_height |-> ih, wall_thickness |-> wt]

STANDARD_37MM == CassetteProfile(42000, 34000, 37400, 37200, 5000, 2000)

\* a slip of MINIATURE_25MM: the 0.2 mm clearance added to the outer
\* diameter instead of the boss diameter
MINIATURE_25MM_WideSocket ==
  CassetteProfile(26000, 22000, 24000, 26200, 3000, 2000)

MINIATURE_25MM == CassetteProfile(26000, 22000, 24000, 24200, 3000, 2000)

\* the fields of the dataclass
ProfileFields ==
  {"outer_diameter", "inner_flow_diameter", "male_boss_diameter",
   "female_socket_diameter", "interface_height", "wall_thickness"}

\* a slip of SetField: the dataclass not frozen, the assignment succeeds
SetField_Unfrozen(obj, field, value) ==
  [status |-> "returned", exc |-> "", value |-> [obj EXCEPT ![field] = value]]

\* obj.field = value on a CassetteProfile: the __setattr__ of a frozen
\* dataclass raises FrozenInstanceError and assigns nothing
SetField(obj, field, value) ==
  [status |-> "raised", exc |-> "FrozenInstanceError", value |-> obj]

\* a caller-built profile: the dataclass defaults with interface_height
\* overridden, CassetteProfile(interface_height=ih)
CustomProfile(ih) == CassetteProfile(42000, 34000, 37400, 37200, ih, 2000)

(***************************************************************************)
(* CADTemplates (templates.py).  A solid is the record of the dimensions   *)
(* the geometry kernel is asked to build it with; `sound` says that every  *)
(* primitive of the solid has positive extent.                             *)
(***************************************************************************)
\* a slip of the default: two bores where the solver assumes one nozzle
PLATE_NOZZLE_COUNT_Two == 1 + 1

\* default of nozzle_plate's nozzle_count parameter
PLATE_NOZZLE_COUNT_DEFAULT == 1

\* a slip of nozzle_plate: Circle(radius=nozzle_diam), the diameter taken
\* for the radius of the bore
nozzle_plate_BoreRadius(diameter, thickness, nozzle_diam, nozzle_count) ==
  [diameter |-> diameter, thickness |-> thickness,
   bore_diameter |-> 2 * nozzle_diam, bores |-> nozzle_count,
   sound |-> diameter > 0 /\ thickness > 0 /\ nozzle_diam > 0]

\* nozzle_plate: a disc with nozzle_count through-bores
nozzle_plate(diameter, thickness, nozzle_diam, nozzle_count) ==
  [diameter |-> diameter, thickness |-> thickness,
   bore_diameter |-> nozzle_diam, bores |-> nozzle_count,
   sound |-> diameter > 0 /\ thickness > 0 /\ nozzle_diam > 0]

\* impaction_body: housing from Z = 0 to Z = height, boss below Z = 0,
\* socket recessed from the top face, central bore
impaction_body(od, id_flow, height, boss_od, boss_height, socket_id, socket_depth) ==
  [od |-> od, id_flow |-> id_flow, height |-> height,
   boss_od |-> boss_od, boss_height |-> boss_height,
   socket_id |-> socket_id, socket_depth |-> socket_depth,
   socket_floor_z |-> IF socket_depth > 0 THEN height - socket_depth ELSE height,
   sound |-> od > 0 /\ id_flow > 0 /\ height > 0]

\* impaction_cup: a floor disc from Z = 0 to Z = floor_thickness, topped
\* by an annular rim of rim_height
impaction_cup(radius, rim_height, floor_thickness, wall_thickness) ==
  [radius |-> radius, rim_height |-> rim_height,
   floor_thickness |-> floor_thickness, wall_thickness |-> wall_thickness,
   floor_bottom_z |-> 0, floor_top_z |-> floor_thickness,
   rim_top_z |-> floor_thickness + rim_height,
   sound |-> radius > 0 /\ radius - wall_thickness > 0 /\ rim_height > 0
             /\ floor_thickness > 0]

\* cup.move(Location((0, 0, z))): a rigid translation along Z
MoveZ(cup, z) ==
  [cup EXCEPT !.floor_bottom_z = @ + z, !.floor_top_z = @ + z, !.rim_top_z = @ + z]

\* a slip of StrutSpan: no overlap added
StrutSpan_NoOverlap(inner_radius, outer_radius) == outer_radius - inner_radius

\* a slip of StrutSpan: the radii exchanged
StrutSpan_Reversed(inner_radius, outer_radius) ==
  inner_radius - outer_radius + 2000

\* span = outer_radius - inner_radius + 2.0
StrutSpan(inner_radius, outer_radius) == outer_radius - inner_radius + 2000

\* add_struts: `count` bars of length span centred on the mid radius
add_struts(part, inner_radius, outer_radius, z_pos, count, width, thickness) ==
  LET span   == StrutSpan(inner_radius, outer_radius)
      centre == (inner_radius + outer_radius) \div 2
  IN  [body |-> part.body, cup |-> part.cup,
       struts |-> [inner_radius |-> inner_radius, outer_radius |-> outer_radius,
                   z_pos |-> z_pos, count |-> count, width |-> width,
                   thickness |-> thickness, span |-> span, centre |-> centre],
       sound |-> part.sound /\ span > 0 /\ width > 0 /\ thickness > 0]

\* body + cup_placed
Union(body, cup) == [body |-> body, cup |-> cup, sound |-> body.sound /\ cup.sound]

(***************************************************************************)
(* Text: a string is a sequence of tokens, a number is formatted digit by  *)
(* digit as str() formats it                                               *)
(***************************************************************************)
DigitChars == <<"0", "1", "2", "3", "4", "5", "6", "7", "8", "9">>

\* str(n) of an integer n >= 0
RECURSIVE IntStr(_)
IntStr(n) ==
  IF n < 10 THEN <<DigitChars[n + 1]>>
  ELSE IntStr(n \div 10) \o <<DigitChars[(n % 10) + 1]>>

\* str(x) of a float x with one decimal, x given in tenths: "10.0", "-1.0"
FloatStr(x) ==
  (IF x < 0 THEN <<"-">> ELSE <<>>)
    \o IntStr(Abs(x) \div 10) \o <<".">> \o IntStr(Abs(x) % 10)

(***************************************************************************)
(* AgenticCADSystem (agent_engine.py)                                      *)
(***************************************************************************)
\* get_geometric_constraints defaults, used by generate_impactor_stage
NOZZLE_COUNT_DEFAULT == 1
S_W_RATIO_DEFAULT == 15
T_W_RATIO_DEFAULT == 10

\* clearance_margin = 10.0
clearance_margin == 10000

\* rim_height=3.0 of the cup; floor_thickness=2.0, wall_thickness=1.0
CUP_RIM_HEIGHT == 3000
CUP_FLOOR_THICKNESS == 2000
CUP_WALL_THICKNESS == 1000

\* count=3 struts; width=2.0, thickness=2.0
STRUT_COUNT == 3
STRUT_WIDTH == 2000
STRUT_THICKNESS == 2000

\* an AgenticCADSystem object: the fields __init__ assigns (self.templates
\* is a CADTemplates object, which has no fields)
AgenticCADSystem(profile) == [profile |-> profile, physics |-> DefaultSolver]

\* a slip of BodyHeight: the clearance margin left out
BodyHeight_NoMargin(s_mm) == s_mm

\* body_height = s_mm + clearance_margin
BodyHeight(s_mm) == s_mm + clearance_margin

\* a slip of CupRadius: three diameters taken as the cup's diameter
CupRadius_AsDiameter(d_mm) == (d_mm * 3) \div 2

\* cup_radius = d_mm * 3.0
CupRadius(d_mm) == d_mm * 3

\* a slip of NozzleExitZ: the socket depth left out
NozzleExitZ_NoInterface(body_height, profile) == body_height

\* nozzle_exit_z = body_height - self.profile.interface_height
NozzleExitZ(body_height, profile) == body_height - profile.interface_height

\* a slip of CupFloorZ: the jet-to-plate distance added instead of subtracted
CupFloorZ_Added(nozzle_exit_z, s_mm) == nozzle_exit_z + s_mm

\* cup_floor_z = nozzle_exit_z - s_mm
CupFloorZ(nozzle_exit_z, s_mm) == nozzle_exit_z - s_mm

\* the dictionary generate_impactor_stage returns
StageData(assembly, nozzle, constraints, stage_name, body_height, cup_floor_z) ==
  [assembly |-> assembly, nozzle |-> nozzle, constraints |-> constraints,
   metadata |-> [stage_name |-> stage_name, body_height |-> body_height,
                 cup_floor_z |-> cup_floor_z]]

NoStageData ==
  StageData(add_struts(Union(impaction_body(0, 0, 0, 0, 0, 0, 0),
                             impaction_cup(0, 0, 0, 0)), 0, 0, 0, 0, 0, 0),
            nozzle_plate(0, 0, 0, 0), NoConstraints, <<>>, 0, 0)

\* generate_impactor_stage from the constraints on: the kernel takes real
\* dimensions only (a complex one is a TypeError); whether it builds a
\* solid with a primitive of non-positive extent is the kernel's choice,
\* kernel_accepts.
BuildStage(profile, solved, stage_name, kernel_accepts) ==
  LET constraints == solved.value
      d_mm        == Val(constraints.nozzle_diameter_mm)
      s_mm        == Val(constraints.jet_to_plate_mm)
      t_mm        == Val(constraints.throat_length_mm)
      plate       == nozzle_plate(profile.female_socket_diameter, t_mm, d_mm,
                                  PLATE_NOZZLE_COUNT_DEFAULT)
      body_height == BodyHeight(s_mm)
      body        == impaction_body(profile.outer_diameter,
                                    profile.inner_flow_diameter, body_height,
                                    profile.male_boss_diameter,
                                    profile.interface_height,
                                    profile.female_socket_diameter,
                                    profile.interface_height)
      cup_radius  == CupRadius(d_mm)
      cup         == impaction_cup(cup_radius, CUP_RIM_HEIGHT,
                                   CUP_FLOOR_THICKNESS, CUP_WALL_THICKNESS)
      nozzle_exit_z == NozzleExitZ(body_height, profile)
      cup_floor_z == CupFloorZ(nozzle_exit_z, s_mm)
      cup_placed  == MoveZ(cup, cup_floor_z)
      assembly    == add_struts(Union(body, cup_placed), cup_radius,
                                profile.inner_flow_diameter \div 2, cup_floor_z,
                                STRUT_COUNT, STRUT_WIDTH, STRUT_THICKNESS)
  IN  IF solved.status = "raised" THEN Raised(solved.exc, NoStageData)
      ELSE IF ~IsReal(constraints.nozzle_diameter_mm)
        THEN Raised("TypeError", NoStageData)
      ELSE IF ~(plate.sound /\ assembly.sound) /\ ~kernel_accepts
        THEN Raised("KernelError", NoStageData)
      ELSE Returned(StageData(assembly, plate, constraints, stage_name,
                              body_height, cup_floor_z))

\* generate_impactor_stage: the constraints are solved with the solver's
\* default nozzle count and ratios
generate_impactor_stage(self, flow_rate_lpm, target_cutpoint, stage_name, kernel_accepts) ==
  CHOOSE r \in {BuildStage(self.profile, solved, stage_name, kernel_accepts) :
                  solved \in {get_geometric_constraints(self.physics,
                     flow_rate_lpm, target_cutpoint, NOZZLE_COUNT_DEFAULT, S_W_RATIO_DEFAULT,
                     T_W_RATIO_DEFAULT)}} : TRUE

(***************************************************************************)
(* verify_cutpoint.py: the Stokes number of a particle, recomputed from    *)
(* the nozzle diameter the solver returned                                 *)
(***************************************************************************)
\* the script's own constants
RHO_P == 1000
AIR_VISCOSITY == 181
STK_50_IDEAL == 2400
tolerance == 100
NOZZLE_COUNT == 1

\* test_sizes, in 0.1 um
test_sizes == <<10, 20, 30, 40, 45, 50, 55, 60, 70, 80, 100>>

\* jet_velocity = Q_m3s / (NOZZLE_COUNT * pi * (nozzle_diam_m / 2)**2),
\* in 0.001 m/s
VerifyJetVelocity(flow, count, nozzle_diam_m) ==
  MulDiv(flow * 4 * PiDen, 100000000,
         6 * count * PiNum * (nozzle_diam_m * nozzle_diam_m))

\* calculate_stk with C = 1.0, in 0.0001:
\*   rho * (d/1e7)^2 * (v/1e3) / (9 * (mu/1e7) * (w/1e5))
\*     = rho * d^2 * v / (9 * mu * w * 1e5)
calculate_stk(d_p_microns, jet_velocity, nozzle_diam_m) ==
  MulDiv(RHO_P * (d_p_microns * d_p_microns), jet_velocity,
         9 * AIR_VISCOSITY * nozzle_diam_m * 10)

\* the loop over test_sizes: stk_at_target is the Stokes number of the
\* size equal to TARGET_CUTPOINT, and stays 0 when no size equals it
RECURSIVE StkAtTarget(_, _, _, _, _)
StkAtTarget(k, target, jet_velocity, nozzle_diam_m, acc) ==
  IF k > Len(test_sizes) THEN acc
  ELSE StkAtTarget(k + 1, target, jet_velocity, nozzle_diam_m,
                   IF test_sizes[k] = target
                   THEN calculate_stk(test_sizes[k], jet_velocity, nozzle_diam_m)
                   ELSE acc)

\* the verdict printed by the script
Verdict(stk_at_target) ==
  IF Abs(stk_at_target - STK_50_IDEAL) < tolerance THEN "PASS" ELSE "FAIL"

\* a run of the script with FLOW_RATE_LPM = flow, TARGET_CUTPOINT = target
verify_cutpoint(flow, target) ==
  LET d   == calculate_nozzle_diameter(DefaultSolver, flow, target,
                                       NOZZLE_COUNT_DEFAULT,
                                       STK_50_DEFAULT)
      w   == d.value.mag
      vel == VerifyJetVelocity(flow, NOZZLE_COUNT, w)
      stk == StkAtTarget(1, target, vel, w, 0)
  IN  IF d.status = "raised" THEN Raised(d.exc, [stk |-> 0, result |-> ""])
      ELSE IF w = 0 THEN Raised("ZeroDivisionError", [stk |-> 0, result |-> ""])
      ELSE Returned([stk |-> stk, result |-> Verdict(stk)])

(***************************************************************************)
(* create_impactor.py and export_stage                                     *)
(***************************************************************************)
\* "_".join(map(str, cutpoints))
RECURSIVE JoinCutpoints(_)
JoinCutpoints(cps) ==
  IF cps = <<>> THEN <<>>
  ELSE IF Len(cps) = 1 THEN FloatStr(cps[1])
  ELSE FloatStr(cps[1]) \o <<"_">> \o JoinCutpoints(Tail(cps))

\* project_name = f"impactor_{flow_rate}LPM_" + "_".join(map(str, cutpoints))
ProjectName(flow_rate, cps) ==
  <<"impactor_">> \o FloatStr(flow_rate) \o <<"LPM_">> \o JoinCutpoints(cps)

\* a slip of StageLabel: the index left out, f"stage_{cp}um"
StageLabel_NoIndex(i, cp) == <<"stage_">> \o FloatStr(cp) \o <<"um">>

\* a slip of StageLabel: the 0-based index used as it is
StageLabel_ZeroBased(i, cp) ==
  <<"stage_">> \o IntStr(i) \o <<"_">> \o FloatStr(cp) \o <<"um">>

\* stage_label = f"stage_{i+1}_{cp}um", i the 0-based index of the loop
StageLabel(i, cp) ==
  <<"stage_">> \o IntStr(i + 1) \o <<"_">> \o FloatStr(cp) \o <<"um">>

\* os.path.join(folder, f"{name}_body.stl"), a path being its components
BodyPath(folder, name) == Append(folder, name \o <<"_body.stl">>)

\* os.path.join(folder, f"{name}_nozzle.stl")
NozzlePath(folder, name) == Append(folder, name \o <<"_nozzle.stl">>)

\* a slip of WriteFile: the export empties the output tree first
WriteFile_ClearsFolder(fs, path, solid) == {[path |-> path, solid |-> solid]}

\* export_stl(solid, path): the file at path now holds the mesh of solid
WriteFile(fs, path, solid) ==
  {f \in fs : f.path # path} \cup {[path |-> path, solid |-> solid]}

\* an exception as the caller receives it: its type and, for an OSError,
\* the file it names (no other exception of the run names anything)
Exception(exc, filename) == [exc |-> exc, filename |-> filename]

NoException == Exception("", <<>>)

(***************************************************************************)
(* State                                                                   *)
(***************************************************************************)
VARIABLES
  nozzle,     \* the last calculate_nozzle_diameter call and its outcome
  phys,       \* the last get_geometric_constraints call and its outcome
  profile,    \* AgenticCADSystem.profile of the agent in use
  stage,      \* the last stand-alone generate_impactor_stage call
  verify,     \* the last run of verify_cutpoint.py
  pc,         \* position of create_multi_stage_impactor
  flow_rate,  \* its flow_rate argument
  cutpoints,  \* its cutpoints argument
  i,          \* 0-based index of the loop
  result,     \* the loop's `result`
  stages,     \* the stages generated so far, in order of generation
  files,      \* the files written by export_stl, each with the solid it holds
  error,      \* the exception that left create_multi_stage_impactor
  solver,     \* the fields of a PhysicsSolver object kept across calls
  calls,      \* the calls made on that object, in order, with their outcomes
  threads,    \* the generate_impactor_stage calls in progress on one agent
  attempt,    \* the last attempted assignment to a field of the profile
  iterations, \* the folders of the 'iterations' directory
  runs,       \* the number of export_batch runs made
  export,     \* the export_batch run of the last process, if it made one
  shown,      \* the folder the last process selected, if it was a viewer
  replay      \* the replay of a snapshot by the last process, if it made one

\* the state of a run of one of the design tools
designVars == <<nozzle, phys, profile, stage, verify, pc, flow_rate, cutpoints,
                i, result, stages, files, error>>

\* the state of a session on one PhysicsSolver object
solverVars == <<solver, calls>>

\* the state of the stage computations sharing one agent
sharedVars == <<threads, attempt>>

\* the state of the 'iterations' directory and of its viewers
iterVars == <<iterations, runs, export, shown, replay>>

vars == <<designVars, solverVars, sharedVars, iterVars>>

\* bounds of the inputs
MaxStages == 3
MaxNozzles == 2

Flows == {-40, 0, 8, 40}
Cutpoints == {-10, 0, 10, 25, 40, 50, 100}
NozzleCounts == -1 .. MaxNozzles
Stk50s == {-24, 0, STK_50_DEFAULT}
SWRatios == {S_W_RATIO_DEFAULT, 20}
TWRatios == {T_W_RATIO_DEFAULT, 5}
Profiles == {STANDARD_37MM, MINIATURE_25MM, CustomProfile(15000)}
StageNames == {<<"stage">>, <<"refactored_test">>}
CascadeFlows == {0, 8, 40}
CascadeCutpoints == {0, 25, 50, 100}

\* bound on the number of stage computations in progress at once
MaxThreads == 2

Threads == 1 .. MaxThreads

SeqsUpTo(S, n) == UNION {[1 .. m -> S] : m \in 0 .. n}

NotCalled(v) == [status |-> "none", exc |-> "", value |-> v]

NoNozzle ==
  [flow_rate_lpm |-> 0, target_cutpoint_microns |-> 0, nozzle_count |-> 0,
   stk_50 |-> 0, out |-> NotCalled(Real(0))]

NoPhys ==
  [flow_rate_lpm |-> 0, target_cutpoint_microns |-> 0, nozzle_count |-> 0,
   s_w_ratio |-> 0, t_w_ratio |-> 0, out |-> NotCalled(NoConstraints)]

NoStage ==
  [flow_rate_lpm |-> 0, target_cutpoint |-> 0, stage_name |-> <<>>,
   out |-> NotCalled(NoStageData)]

NoVerify ==
  [flow |-> 0, target |-> 0, out |-> NotCalled([stk |-> 0, result |-> ""])]

\* a generate_impactor_stage call: its position, its arguments, the agent
\* as it was when called, its local variables and its outcome
Thread(pc_, f, c, name, entry, k, plate, body_height, body, cup_radius, cup_floor_z, cup_placed, out) ==
  [pc |-> pc_, flow_rate_lpm |-> f, target_cutpoint |-> c, stage_name |-> name,
   entry |-> entry, constraints |-> k, nozzle_plate |-> plate,
   body_height |-> body_height, body |-> body, cup_radius |-> cup_radius,
   cup_floor_z |-> cup_floor_z, cup_placed |-> cup_placed, out |-> out]

\* no call in progress
NoThread ==
  Thread("idle", 0, 0, <<>>, [profile |-> STANDARD_37MM, physics |-> DefaultSolver],
         NoConstraints, nozzle_plate(0, 0, 0, 0), 0,
         impaction_body(0, 0, 0, 0, 0, 0, 0), 0, 0, impaction_cup(0, 0, 0, 0),
         NotCalled(NoStageData))

\* no assignment attempted
NoAttempt ==
  [status |-> "none", exc |-> "", before |-> STANDARD_37MM,
   after |-> STANDARD_37MM]

\* the agent as a running call finds it: self.profile and self.physics
SharedAgent == [profile |-> profile, physics |-> solver]

\* the interpreter has just started: nothing has been called yet
Idle ==
  /\ pc = "idle"
  /\ nozzle.out.status = "none"
  /\ phys.out.status = "none"
  /\ stage.out.status = "none"
  /\ verify.out.status = "none"

NoCascade ==
  /\ pc' = "idle"
  /\ flow_rate' = 0
  /\ cutpoints' = <<>>
  /\ i' = 0
  /\ result' = NoStageData
  /\ stages' = <<>>
  /\ files' = {}
  /\ error' = NoException

\* no export_batch has run and no viewer has been started
NoExport == [status |-> "none", before |-> {}, next_v |-> 0, folder |-> <<>>]
NoShown == [status |-> "none", among |-> {}, folder |-> <<>>]
NoReplay == [status |-> "none", runner |-> <<>>, before |-> {}, after |-> {}]

NoIterations ==
  /\ iterations = {}
  /\ runs = 0
  /\ export = NoExport
  /\ shown = NoShown
  /\ replay = NoReplay

Init ==
  /\ nozzle = NoNozzle
  /\ phys = NoPhys
  /\ profile = STANDARD_37MM
  /\ stage = NoStage
  /\ verify = NoVerify
  /\ pc = "idle"
  /\ flow_rate = 0
  /\ cutpoints = <<>>
  /\ i = 0
  /\ result = NoStageData
  /\ stages = <<>>
  /\ files = {}
  /\ error = NoException
  /\ solver = DefaultSolver
  /\ calls = <<>>
  /\ threads = [t \in Threads |-> NoThread]
  /\ attempt = NoAttempt
  /\ NoIterations

(***************************************************************************)
(* Operations.  A behaviour is one run of the interpreter: one call of the *)
(* solver or of the agent, one run of verify_cutpoint.py, or one run of    *)
(* create_multi_stage_impactor.                                            *)
(***************************************************************************)
\* solver.calculate_nozzle_diameter(f, c, n, s)
CallNozzleDiameter ==
  \E f \in Flows, c \in Cutpoints, n \in NozzleCounts, s \in Stk50s :
    /\ Idle
    /\ nozzle' = [flow_rate_lpm |-> f, target_cutpoint_microns |-> c,
                  nozzle_count |-> n, stk_50 |-> s,
                  out |-> calculate_nozzle_diameter(DefaultSolver, f, c, n, s)]
    /\ phys' = NoPhys /\ stage' = NoStage /\ verify' = NoVerify
    /\ profile' = STANDARD_37MM
    /\ NoCascade
    /\ UNCHANGED <<solverVars, sharedVars, iterVars>>

\* solver.get_geometric_constraints(f, c, n, sw, tw)
CallGeometricConstraints ==
  \E f \in Flows, c \in Cutpoints, n \in NozzleCounts,
     sw \in SWRatios, tw \in TWRatios :
    /\ Idle
    /\ phys' = [flow_rate_lpm |-> f, target_cutpoint_microns |-> c,
                nozzle_count |-> n, s_w_ratio |-> sw, t_w_ratio |-> tw,
                out |-> get_geometric_constraints(DefaultSolver, f, c, n, sw,
                                                  tw)]
    /\ nozzle' = NoNozzle /\ stage' = NoStage /\ verify' = NoVerify
    /\ profile' = STANDARD_37MM
    /\ NoCascade
    /\ UNCHANGED <<solverVars, sharedVars, iterVars>>

\* AgenticCADSystem(profile=p).generate_impactor_stage(f, c, stage_name=name)
CallGenerateStage ==
  \E p \in Profiles, f \in Flows, c \in Cutpoints, name \in StageNames,
     kernel_accepts \in BOOLEAN :
    /\ Idle
    /\ profile' = p
    /\ stage' = [flow_rate_lpm |-> f, target_cutpoint |-> c, stage_name |-> name,
                 out |-> generate_impactor_stage(AgenticCADSystem(p), f, c, name,
                                                 kernel_accepts)]
    /\ nozzle' = NoNozzle /\ phys' = NoPhys /\ verify' = NoVerify
    /\ NoCascade
    /\ UNCHANGED <<solverVars, sharedVars, iterVars>>

\* python verify_cutpoint.py
RunVerifyCutpoint ==
  \E f \in Flows \ {-40}, c \in Cutpoints \ {-10} :
    /\ Idle
    /\ verify' = [flow |-> f, target |-> c, out |-> verify_cutpoint(f, c)]
    /\ nozzle' = NoNozzle /\ phys' = NoPhys /\ stage' = NoStage
    /\ profile' = STANDARD_37MM
    /\ NoCascade
    /\ UNCHANGED <<solverVars, sharedVars, iterVars>>

\* create_multi_stage_impactor(f, cps): agent and project folder
StartCascade ==
  \E f \in CascadeFlows, cps \in SeqsUpTo(CascadeCutpoints, MaxStages) :
    /\ Idle
    /\ profile' = STANDARD_37MM
    /\ pc' = "loop"
    /\ flow_rate' = f
    /\ cutpoints' = cps
    /\ i' = 0
    /\ result' = NoStageData
    /\ stages' = <<>>
    /\ files' = {}
    /\ error' = NoException
    /\ nozzle' = NoNozzle /\ phys' = NoPhys /\ stage' = NoStage
    /\ verify' = NoVerify
    /\ UNCHANGED <<solverVars, sharedVars, iterVars>>

\* stage_dir = os.path.join(project_dir, stage_label)
StageDir(f, cps, k) ==
  <<<<"generated_impactors">>, ProjectName(f, cps), StageLabel(k, cps[k + 1])>>

\* one pass of the loop up to generate_impactor_stage, called on the one
\* agent the function built before the loop
CascadeGenerate ==
  \E kernel_accepts \in BOOLEAN :
    /\ pc = "loop"
    /\ i < Len(cutpoints)
    /\ \E r \in {generate_impactor_stage(SharedAgent, flow_rate,
                     cutpoints[i + 1], StageLabel(i, cutpoints[i + 1]), kernel_accepts)} :
         IF r.status = "raised"
         THEN /\ pc' = "failed"
              /\ error' = Exception(r.exc, <<>>)
              /\ UNCHANGED <<result, stages>>
         ELSE /\ pc' = "export_body"
              /\ result' = r.value
              /\ stages' = Append(stages, [index |-> i,
                                           cutpoint |-> cutpoints[i + 1],
                                           data |-> r.value])
              /\ UNCHANGED error
    /\ solver' = SolverAfter(solver)
    /\ UNCHANGED <<nozzle, phys, profile, stage, verify, flow_rate, cutpoints,
                   i, files>>
    /\ UNCHANGED <<calls, sharedVars, iterVars>>

\* export_stage: makedirs and export_stl(stage_data["assembly"], body_path)
CascadeExportBody ==
  \E io_ok \in BOOLEAN :
    /\ pc = "export_body"
    /\ LET path == BodyPath(StageDir(flow_rate, cutpoints, i),
                            result.metadata.stage_name)
       IN  IF io_ok
           THEN /\ files' = WriteFile(files, path, result.assembly)
                /\ pc' = "export_nozzle"
                /\ UNCHANGED error
           ELSE /\ pc' = "failed"
                /\ error' = Exception("OSError", path)
                /\ UNCHANGED files
    /\ UNCHANGED <<nozzle, phys, profile, stage, verify, flow_rate, cutpoints,
                   i, result, stages>>
    /\ UNCHANGED <<solverVars, sharedVars, iterVars>>

\* export_stage: export_stl(stage_data["nozzle"], nozzle_path), then the
\* loop moves on
CascadeExportNozzle ==
  \E io_ok \in BOOLEAN :
    /\ pc = "export_nozzle"
    /\ LET path == NozzlePath(StageDir(flow_rate, cutpoints, i),
                              result.metadata.stage_name)
       IN  IF io_ok
           THEN /\ files' = WriteFile(files, path, result.nozzle)
                /\ pc' = "loop"
                /\ i' = i + 1
                /\ UNCHANGED error
           ELSE /\ pc' = "failed"
                /\ error' = Exception("OSError", path)
                /\ UNCHANGED <<files, i>>
    /\ UNCHANGED <<nozzle, phys, profile, stage, verify, flow_rate, cutpoints,
                   result, stages>>
    /\ UNCHANGED <<solverVars, sharedVars, iterVars>>

\* the loop is exhausted: "All stages generated successfully"
CascadeFinish ==
  /\ pc = "loop"
  /\ i = Len(cutpoints)
  /\ pc' = "done"
  /\ UNCHANGED <<nozzle, phys, profile, stage, verify, flow_rate, cutpoints,
                 i, result, stages, files, error>>
  /\ UNCHANGED <<solverVars, sharedVars, iterVars>>

Next ==
  \/ CallNozzleDiameter
  \/ CallGeometricConstraints
  \/ CallGenerateStage
  \/ RunVerifyCutpoint
  \/ StartCascade
  \/ CascadeGenerate
  \/ CascadeExportBody
  \/ CascadeExportNozzle
  \/ CascadeFinish

Spec == Init /\ [][Next]_vars

(***************************************************************************)
(* A session on one PhysicsSolver object: any sequence of calls of its     *)
(* three methods.  Each method reads the fields of self and assigns none.  *)
(***************************************************************************)
\* bound on the length of a session
MaxCalls == 3

\* arguments of the calls of a session
SessionFlows == {0, 8, 40}
SessionCutpoints == {50}
SessionCounts == {1, 2}
SessionDiameters == {Real(378)}

\* the record of one call
Call(op, args, out) == [op |-> op, args |-> args, out |-> out]

\* solver.calculate_nozzle_diameter(f, c, n)
SessionNozzleDiameter ==
  \E f \in SessionFlows \ {0}, c \in SessionCutpoints, n \in SessionCounts :
    /\ Len(calls) < MaxCalls
    /\ calls' = Append(calls, Call("calculate_nozzle_diameter", <<f, c, n>>,
                   calculate_nozzle_diameter(solver, f, c, n, STK_50_DEFAULT)))
    /\ solver' = SolverAfter(solver)
    /\ UNCHANGED <<designVars, sharedVars, iterVars>>

\* solver.calculate_reynolds(f, n, d)
SessionReynolds ==
  \E f \in SessionFlows \ {0, 8}, n \in SessionCounts, d \in SessionDiameters :
    /\ Len(calls) < MaxCalls
    /\ calls' = Append(calls, Call("calculate_reynolds", <<f, n, d>>,
                   calculate_reynolds(solver, f, n, d)))
    /\ solver' = SolverAfter(solver)
    /\ UNCHANGED <<designVars, sharedVars, iterVars>>

\* solver.get_geometric_constraints(f, c, n)
SessionGeometricConstraints ==
  \E f \in SessionFlows, c \in SessionCutpoints, n \in SessionCounts :
    /\ Len(calls) < MaxCalls
    /\ calls' = Append(calls, Call("get_geometric_constraints", <<f, c, n>>,
                   get_geometric_constraints(solver, f, c, n, S_W_RATIO_DEFAULT,
                                             T_W_RATIO_DEFAULT)))
    /\ solver' = SolverAfter(solver)
    /\ UNCHANGED <<designVars, sharedVars, iterVars>>

SessionNext ==
  \/ SessionNozzleDiameter
  \/ SessionReynolds
  \/ SessionGeometricConstraints

SolverSession == Init /\ [][SessionNext]_vars

(***************************************************************************)
(* Stage computations sharing one agent: several generate_impactor_stage   *)
(* calls in progress on one AgenticCADSystem, each a thread with its own   *)
(* local variables, reading self.profile and self.physics statement by     *)
(* statement, while other code holding the profile tries to assign to its  *)
(* fields.                                                                 *)
(***************************************************************************)
SharedProfiles == {STANDARD_37MM, MINIATURE_25MM}
SharedFlows == {40}
SharedCutpoints == {0, 50, 100}
AssignedValues == {1000}

\* the variables of a run of the design tools other than the profile
callVars == <<nozzle, phys, stage, verify, pc, flow_rate, cutpoints, i, result,
              stages, files, error>>

\* AgenticCADSystem(profile=p) for a profile p of the catalogue
SharedInit ==
  /\ profile \in SharedProfiles
  /\ nozzle = NoNozzle /\ phys = NoPhys /\ stage = NoStage /\ verify = NoVerify
  /\ pc = "idle" /\ flow_rate = 0 /\ cutpoints = <<>> /\ i = 0
  /\ result = NoStageData /\ stages = <<>> /\ files = {}
  /\ error = NoException
  /\ solver = DefaultSolver
  /\ calls = <<>>
  /\ threads = [t \in Threads |-> NoThread]
  /\ attempt = NoAttempt
  /\ NoIterations

\* the call th ends with the exception exc
Failed(th, exc) == [th EXCEPT !.pc = "failed", !.out = Raised(exc, NoStageData)]

\* the kernel was asked for a solid: a solid with a primitive of
\* non-positive extent is built or refused, as the kernel chooses
Built(th, sound, kernel_accepts, next) ==
  IF ~sound /\ ~kernel_accepts THEN Failed(th, "KernelError") ELSE next

\* agent.generate_impactor_stage(f, c, stage_name=name) is entered
ThreadCall ==
  \E t \in Threads, f \in SharedFlows, c \in SharedCutpoints :
    /\ threads[t].pc = "idle"
    /\ threads' = [threads EXCEPT ![t] =
         [@ EXCEPT !.pc = "solve", !.flow_rate_lpm = f, !.target_cutpoint = c,
                   !.stage_name = <<"stage">>, !.entry = SharedAgent]]
    /\ UNCHANGED <<iterVars, callVars, profile, solver, calls, attempt>>

\* constraints = self.physics.get_geometric_constraints(...)
ThreadSolve ==
  \E t \in Threads :
    /\ threads[t].pc = "solve"
    /\ \E r \in {get_geometric_constraints(solver, threads[t].flow_rate_lpm,
                     threads[t].target_cutpoint, NOZZLE_COUNT_DEFAULT,
                     S_W_RATIO_DEFAULT, T_W_RATIO_DEFAULT)} :
         threads' = [threads EXCEPT ![t] =
           IF r.status = "raised" THEN Failed(@, r.exc)
           ELSE [@ EXCEPT !.pc = "plate", !.constraints = r.value]]
    /\ solver' = SolverAfter(solver)
    /\ UNCHANGED <<iterVars, callVars, profile, calls, attempt>>

\* nozzle_plate = self.templates.nozzle_plate(...)
ThreadPlate ==
  \E t \in Threads, kernel_accepts \in BOOLEAN :
    /\ threads[t].pc = "plate"
    /\ LET k     == threads[t].constraints
           plate == nozzle_plate(profile.female_socket_diameter,
                                 Val(k.throat_length_mm),
                                 Val(k.nozzle_diameter_mm),
                                 PLATE_NOZZLE_COUNT_DEFAULT)
       IN  threads' = [threads EXCEPT ![t] =
             IF ~IsReal(k.nozzle_diameter_mm) THEN Failed(@, "TypeError")
             ELSE Built(@, plate.sound, kernel_accepts,
                        [@ EXCEPT !.pc = "body", !.nozzle_plate = plate])]
    /\ UNCHANGED <<iterVars, callVars, profile, solver, calls, attempt>>

\* body_height = s_mm + clearance_margin; body = impaction_body(...)
ThreadBody ==
  \E t \in Threads, kernel_accepts \in BOOLEAN :
    /\ threads[t].pc = "body"
    /\ LET body_height == BodyHeight(Val(threads[t].constraints.jet_to_plate_mm))
           body == impaction_body(profile.outer_diameter,
                                  profile.inner_flow_diameter, body_height,
                                  profile.male_boss_diameter,
                                  profile.interface_height,
                                  profile.female_socket_diameter,
                                  profile.interface_height)
       IN  threads' = [threads EXCEPT ![t] =
             Built(@, body.sound, kernel_accepts,
                   [@ EXCEPT !.pc = "cup", !.body_height = body_height,
                             !.body = body])]
    /\ UNCHANGED <<iterVars, callVars, profile, solver, calls, attempt>>

\* cup_radius, cup, nozzle_exit_z, cup_floor_z, cup_placed
ThreadCup ==
  \E t \in Threads, kernel_accepts \in BOOLEAN :
    /\ threads[t].pc = "cup"
    /\ LET k           == threads[t].constraints
           cup_radius  == CupRadius(Val(k.nozzle_diameter_mm))
           cup         == impaction_cup(cup_radius, CUP_RIM_HEIGHT,
                                        CUP_FLOOR_THICKNESS, CUP_WALL_THICKNESS)
           nozzle_exit_z == NozzleExitZ(threads[t].body_height, profile)
           cup_floor_z == CupFloorZ(nozzle_exit_z, Val(k.jet_to_plate_mm))
       IN  threads' = [threads EXCEPT ![t] =
             Built(@, cup.sound, kernel_accepts,
                   [@ EXCEPT !.pc = "assemble", !.cup_radius = cup_radius,
                             !.cup_floor_z = cup_floor_z,
                             !.cup_placed = MoveZ(cup, cup_floor_z)])]
    /\ UNCHANGED <<iterVars, callVars, profile, solver, calls, attempt>>

\* stage_assembly = body + cup_placed, add_struts(...), return
ThreadAssemble ==
  \E t \in Threads, kernel_accepts \in BOOLEAN :
    /\ threads[t].pc = "assemble"
    /\ LET th       == threads[t]
           assembly == add_struts(Union(th.body, th.cup_placed), th.cup_radius,
                                  profile.inner_flow_diameter \div 2,
                                  th.cup_floor_z, STRUT_COUNT, STRUT_WIDTH,
                                  STRUT_THICKNESS)
       IN  threads' = [threads EXCEPT ![t] =
             Built(@, assembly.sound, kernel_accepts,
                   [@ EXCEPT !.pc = "done",
                             !.out = Returned(StageData(assembly, th.nozzle_plate,
                                        th.constraints, th.stage_name,
                                        th.body_height, th.cup_floor_z))])]
    /\ UNCHANGED <<iterVars, callVars, profile, solver, calls, attempt>>

\* profile.<field> = value, by any code holding the shared profile
AssignProfileField ==
  \E field \in ProfileFields, value \in AssignedValues :
    \E r \in {SetField(profile, field, value)} :
      /\ profile' = r.value
      /\ attempt' = [status |-> r.status, exc |-> r.exc, before |-> profile,
                     after |-> r.value]
      /\ UNCHANGED <<iterVars, callVars, solver, calls, threads>>

SharedNext ==
  \/ ThreadCall
  \/ ThreadSolve
  \/ ThreadPlate
  \/ ThreadBody
  \/ ThreadCup
  \/ ThreadAssemble
  \/ AssignProfileField

SharedStages == SharedInit /\ [][SharedNext]_vars

(***************************************************************************)
(* The 'iterations' directory.  A folder name is a sequence of tokens: "v", *)
(* the digits of the version, "_" and the script's suffix.  A script file  *)
(* is the lines that bear on export_batch, each a sequence of tokens       *)
(***************************************************************************)
Indent == "    "

\* design_rotary_assembly.py
RotaryAssembly ==
  [suffix |-> "rotary_cover", first |-> 1,
   lines |-> << <<"def ", "export_batch", "(body, lid, cover):">>,
                <<"if __name__ == \"__main__\":">>,
                <<Indent, "version", " = ", "export_batch", "(body_p, lid_p, cover_p)">> >>]

\* design_rotary_compressed.py
RotaryCompressed ==
  [suffix |-> "copressed_drone", first |-> 1,
   lines |-> << <<"def ", "export_batch", "(body, lid, cover):">>,
                <<"if __name__ == \"__main__\":">>,
                <<Indent, "version, path", " = ", "export_batch", "(body_p, lid_p, cover_p)">> >>]

\* design_rotary_carousel.py: the first version of an empty directory is 56
RotaryCarousel ==
  [suffix |-> "polar_refactor_fix", first |-> 56,
   lines |-> << <<"def ", "export_batch", "(body, lid):">>,
                <<"if __name__ == \"__main__\":">>,
                <<Indent, "export_batch", "(body_p, lid_p)">> >>]

\* cad_spiral.py
CadSpiral ==
  [suffix |-> "flow_variants", first |-> 1,
   lines |-> << <<"def ", "export_batch", "():">>,
                <<"if __name__ == \"__main__\":">>,
                <<Indent, "export_batch", "()">> >>]

\* design_automated_system.py
AutomatedSystem ==
  [suffix |-> "automated_system", first |-> 1,
   lines |-> << <<"def ", "export_batch", "(system):">>,
                <<"if __name__ == \"__main__\":">>,
                <<Indent, "version, parts", " = ", "export_batch", "(sys)">> >>]

DesignScripts ==
  {RotaryAssembly, RotaryCompressed, RotaryCarousel, CadSpiral, AutomatedSystem}

\* the suffixes in the order of their strings
Suffixes ==
  <<"automated_system", "copressed_drone", "flow_variants",
    "polar_refactor_fix", "rotary_cover">>

IsDigit(tok) == \E d \in 1..Len(DigitChars) : DigitChars[d] = tok
DigitOf(tok) == (CHOOSE d \in 1..Len(DigitChars) : DigitChars[d] = tok) - 1

\* f"v{next_v:02d}": at least two digits, more when the number needs them
VersionStr(next_v) ==
  <<"v">> \o (IF next_v < 10 THEN <<"0">> ELSE <<>>) \o IntStr(next_v)

\* f"{version_str}_<suffix>"
FolderName(version_str, suffix) == version_str \o <<"_", suffix>>

\* d.split("_")[0][1:] of a name d that holds a "_"
VersionDigits(d) ==
  SubSeq(d, 2, (CHOOSE k \in 1..Len(d) :
                  d[k] = "_" /\ \A j \in 1..(k - 1) : d[j] # "_") - 1)

\* int(s) of a string of digits
RECURSIVE ParseInt(_)
ParseInt(s) ==
  IF s = <<>> THEN 0
  ELSE 10 * ParseInt(SubSeq(s, 1, Len(s) - 1)) + DigitOf(s[Len(s)])

\* d.startswith("v") and "_" in d, and int() does not raise
HasVersion(d) ==
  /\ d # <<>> /\ d[1] = "v"
  /\ \E k \in 1..Len(d) : d[k] = "_"
  /\ VersionDigits(d) # <<>>
  /\ \A k \in 1..Len(VersionDigits(d)) : IsDigit(VersionDigits(d)[k])

\* v_num = int(d.split("_")[0][1:])
VersionOf(d) == ParseInt(VersionDigits(d))

\* os.listdir(base_dir)
Names(dir) == {f.name : f \in dir}

\* the list 'existing' of export_batch
Existing(dir) == {VersionOf(d) : d \in {d \in Names(dir) : HasVersion(d)}}

NextVersion_Count(existing, first) ==
  IF existing # {} THEN Cardinality(existing) + 1 ELSE first

\* next_v = max(existing) + 1 if existing else <first>
NextVersion(existing, first) ==
  IF existing # {} THEN (CHOOSE m \in existing : \A x \in existing : x <= m) + 1
  ELSE first

\* the folder name export_batch of the file chooses in the directory
NewFolder(dir, file) ==
  FolderName(VersionStr(NextVersion(Existing(dir), file.first)), file.suffix)

\* a folder without a script snapshot
NoSnapshot == [suffix |-> "", first |-> 0, lines |-> <<>>]

\* export_batch run from the file: os.makedirs(output_dir), the STL
\* exports, then shutil.copy(__file__, ...script_snapshot.py); an export
\* that fails leaves the folder without its snapshot
export_batch(dir, file, io_ok) ==
  CHOOSE r \in {IF folder_name \in Names(dir)
                THEN Raised("FileExistsError", dir)
                ELSE IF io_ok
                THEN Returned(dir \cup {[name |-> folder_name, snapshot |-> file]})
                ELSE Raised("OSError", dir \cup {[name |-> folder_name,
                                                  snapshot |-> NoSnapshot]}) :
                  folder_name \in {NewFolder(dir, file)}} : TRUE

\* line.strip()
Strip(line) == IF line # <<>> /\ line[1] = Indent THEN Tail(line) ELSE line

\* the interpreter calls export_batch on this line: the line is neither a
\* comment nor the definition, and it holds the call
CallsExport(line) ==
  /\ Strip(line) # <<>>
  /\ Strip(line)[1] \notin {"# ", "def "}
  /\ \E k \in 1..Len(line) : line[k] = "export_batch"

\* python <file>: the statements of the __main__ block run in order, an
\* exception ends the run
RECURSIVE RunScript(_, _, _, _)
RunScript(dir, file, lines, io_ok) ==
  IF lines = <<>> THEN Returned(dir)
  ELSE IF CallsExport(Head(lines))
  THEN CHOOSE out \in {IF r.status = "raised" THEN r
                       ELSE RunScript(r.value, file, Tail(lines), io_ok) :
                         r \in {export_batch(dir, file, io_ok)}} : TRUE
  ELSE RunScript(dir, file, Tail(lines), io_ok)

\* the character code of a token of a folder name, as sort() compares
Code(tok) ==
  IF IsDigit(tok) THEN 48 + DigitOf(tok)
  ELSE IF tok = "_" THEN 95
  ELSE IF tok = "v" THEN 118
  ELSE 200 + (CHOOSE k \in 1..Len(Suffixes) : Suffixes[k] = tok)

\* a < b in the order of strings
RECURSIVE StrLess(_, _)
StrLess(a, b) ==
  IF b = <<>> THEN FALSE
  ELSE IF a = <<>> THEN TRUE
  ELSE IF Code(Head(a)) # Code(Head(b)) THEN Code(Head(a)) < Code(Head(b))
  ELSE StrLess(Tail(a), Tail(b))

\* folders = [d for d in os.listdir(base_dir) if isdir and d.startswith("v")]
Folders(dir) == {d \in Names(dir) : d # <<>> /\ d[1] = "v"}

\* folders.sort(); latest_folder = folders[-1]
LatestFolder(dir) ==
  CHOOSE d \in Folders(dir) : \A e \in Folders(dir) : e = d \/ StrLess(e, d)

\* the script snapshot of the folder: py_files[0], or none
SnapshotOf(dir, d) == (CHOOSE f \in dir : f.name = d).snapshot

\* the header of the temporary runner
RunnerHeader == << <<"import ocp_vscode">>, <<"ocp_vscode.set_port(3939)">> >>

\* the loop over the snapshot's lines: a line whose stripped text starts
\* with export_batch, and not with "def ", is written as a comment
RECURSIVE DisableExports(_)
DisableExports(lines) ==
  IF lines = <<>> THEN <<>>
  ELSE (IF /\ Strip(Head(lines)) # <<>>
           /\ Strip(Head(lines))[1] = "export_batch"
           /\ Strip(Head(lines))[1] # "def "
        THEN << <<"# ">> \o Head(lines) >>
        ELSE << Head(lines) >>) \o DisableExports(Tail(lines))

\* new_lines, written to temp_viewer_runner.py
Runner(lines) == RunnerHeader \o DisableExports(lines)

\* the directory after n runs of the script
RECURSIVE AfterRuns(_, _, _)
AfterRuns(n, file, dir) ==
  IF n = 0 THEN dir
  ELSE CHOOSE later \in {AfterRuns(n - 1, file, r.value) :
                            r \in {RunScript(dir, file, file.lines, TRUE)}} : TRUE

MaxRuns == 2
\* the runs of design_rotary_carousel.py made before: none, or v56..v98
EarlierRuns == {0, 43}

IterationsInit ==
  /\ nozzle = NoNozzle /\ phys = NoPhys /\ stage = NoStage /\ verify = NoVerify
  /\ profile = STANDARD_37MM
  /\ pc = "idle" /\ flow_rate = 0 /\ cutpoints = <<>> /\ i = 0
  /\ result = NoStageData /\ stages = <<>> /\ files = {}
  /\ error = NoException
  /\ solver = DefaultSolver
  /\ calls = <<>>
  /\ threads = [t \in Threads |-> NoThread]
  /\ attempt = NoAttempt
  /\ iterations \in {AfterRuns(n, RotaryCarousel, {}) : n \in EarlierRuns}
  /\ runs = 0
  /\ export = NoExport
  /\ shown = NoShown
  /\ replay = NoReplay

\* what export_batch of the file did in the directory
Exported(dir, file) ==
  [status |-> "ran", before |-> Names(dir),
   next_v |-> NextVersion(Existing(dir), file.first),
   folder |-> NewFolder(dir, file)]

\* python <design script>
RunDesignScript ==
  \E file \in DesignScripts, io_ok \in BOOLEAN :
    /\ runs < MaxRuns
    /\ iterations' = RunScript(iterations, file, file.lines, io_ok).value
    /\ export' = Exported(iterations, file)
    /\ runs' = runs + 1
    /\ shown' = NoShown
    /\ replay' = NoReplay
    /\ UNCHANGED <<designVars, solverVars, sharedVars>>

\* the folder a viewer selects
Selected(dir) ==
  IF Folders(dir) = {} THEN [status |-> "no designs", among |-> {}, folder |-> <<>>]
  ELSE [status |-> "selected", among |-> Folders(dir), folder |-> LatestFolder(dir)]

\* python show_latest.py
show_latest ==
  /\ shown' = Selected(iterations)
  /\ export' = NoExport
  /\ replay' = NoReplay
  /\ UNCHANGED <<iterations, runs>>
  /\ UNCHANGED <<designVars, solverVars, sharedVars>>

\* python load_latest_source.py: the runner is written from the snapshot
\* of the latest folder and run as a script of its own
load_latest_source ==
  \E io_ok \in BOOLEAN :
    /\ shown' = Selected(iterations)
    /\ IF Folders(iterations) = {}
       THEN /\ export' = NoExport
            /\ replay' = NoReplay
            /\ UNCHANGED <<iterations, runs>>
       ELSE \E target \in {SnapshotOf(iterations, LatestFolder(iterations))} :
         IF target = NoSnapshot
         THEN /\ replay' = [status |-> "no snapshot", runner |-> <<>>,
                            before |-> Names(iterations), after |-> Names(iterations)]
              /\ export' = NoExport
              /\ UNCHANGED <<iterations, runs>>
         ELSE \E file \in {[target EXCEPT !.lines = Runner(target.lines)]} :
                \E r \in {RunScript(iterations, file, file.lines, io_ok)} :
                  /\ iterations' = r.value
                  /\ replay' = [status |-> "ran", runner |-> file.lines,
                                before |-> Names(iterations), after |-> Names(r.value)]
                  /\ IF r.value = iterations
                     THEN /\ export' = NoExport
                          /\ UNCHANGED runs
                     ELSE /\ runs < MaxRuns
                          /\ runs' = runs + 1
                          /\ export' = Exported(iterations, file)
    /\ UNCHANGED <<designVars, solverVars, sharedVars>>

IterationsNext ==
  \/ RunDesignScript
  \/ show_latest
  \/ load_latest_source

Iterations == IterationsInit /\ [][IterationsNext]_vars

(***************************************************************************)
(* Properties                                                              *)
(***************************************************************************)
\* the constraints generate_impactor_stage solves for: the solver's
\* defaults for nozzle count and ratios
StageConstraints(f, c) ==
  get_geometric_constraints(DefaultSolver, f, c, NOZZLE_COUNT_DEFAULT,
                            S_W_RATIO_DEFAULT, T_W_RATIO_DEFAULT)

\* the stage data d, built on profile p, places the nozzle exit at the
\* socket floor, body_height - interface_height, and the cup floor one
\* jet-to-plate distance below it; 1e-6 mm is below the resolution of
\* 0.001 mm, so the tolerance is equality
StageConsistent(p, d) ==
  LET s_mm          == Val(d.constraints.jet_to_plate_mm)
      nozzle_exit_z == d.assembly.body.socket_floor_z
  IN  /\ nozzle_exit_z = d.metadata.body_height - p.interface_height
      /\ d.metadata.cup_floor_z = nozzle_exit_z - s_mm
      /\ d.assembly.cup.floor_bottom_z = d.metadata.cup_floor_z
      /\ Abs(d.metadata.cup_floor_z
               - (d.metadata.body_height - p.interface_height - s_mm)) < 1

\* C1: every result of generate_impactor_stage, stand-alone or inside a
\* cascade, satisfies nozzle_exit_z = body_height - interface_height and
\* cup_floor_z = nozzle_exit_z - jet_to_plate_mm.
C1_AssemblyConsistency ==
  /\ stage.out.status = "returned" => StageConsistent(profile, stage.out.value)
  /\ \A k \in 1 .. Len(stages) : StageConsistent(profile, stages[k].data)

\* C1 witness: a stage returned for the miniature profile at 4 LPM, 5 um
C1_Witness ==
  /\ stage.out.status = "returned"
  /\ profile = MINIATURE_25MM
  /\ stage.flow_rate_lpm = 40
  /\ stage.target_cutpoint = 50
  /\ stage.out.value.metadata.cup_floor_z = 7000

\* C2 (as claimed): solving with flow_rate_lpm = 0 or target_cutpoint = -1
\* raises InvalidInput and returns no constraint set.
C2_InvalidInputRejected ==
  (phys.out.status # "none"
     /\ (phys.flow_rate_lpm = 0 \/ phys.target_cutpoint_microns = -10))
  => (phys.out.status = "raised" /\ phys.out.exc = "InvalidInput")

\* C3 (as claimed): the solver raises InvalidInput whenever nozzle_count <= 0
\* or stk50 <= 0; it neither divides by zero nor returns a diameter that is
\* not a positive real.
C3_NonPositiveCountOrStkRejected ==
  /\ (nozzle.out.status # "none" /\ (nozzle.nozzle_count <= 0 \/ nozzle.stk_50 <= 0))
     => (nozzle.out.status = "raised" /\ nozzle.out.exc = "InvalidInput")
  /\ (phys.out.status # "none" /\ phys.nozzle_count <= 0)
     => (phys.out.status = "raised" /\ phys.out.exc = "InvalidInput")

\* the stage call was made with inputs the solver turns into real
\* constraints k
StageSolved(k) ==
  /\ stage.out.status # "none"
  /\ k.status = "returned"
  /\ IsPositive(k.value.nozzle_diameter_mm)

\* C4 (as claimed): whenever inner_flow_diameter < 6 x nozzle_diameter_mm,
\* generate_impactor_stage fails with GeometryInfeasible.
C4_OversizeCupInfeasible ==
  \A k \in {StageConstraints(stage.flow_rate_lpm, stage.target_cutpoint)} :
    (StageSolved(k)
       /\ profile.inner_flow_diameter < 6 * Val(k.value.nozzle_diameter_mm))
    => (stage.out.status = "raised" /\ stage.out.exc = "GeometryInfeasible")

\* C5 (as claimed): whenever body_height = jet_to_plate_mm + 10.0 is at most
\* interface_height, generate_impactor_stage fails with GeometryInfeasible.
C5_ShortBodyInfeasible ==
  \A k \in {StageConstraints(stage.flow_rate_lpm, stage.target_cutpoint)} :
    (StageSolved(k)
       /\ Val(k.value.jet_to_plate_mm) + 10000 <= profile.interface_height)
    => (stage.out.status = "raised" /\ stage.out.exc = "GeometryInfeasible")

\* the k-th generated stage was built from the k-th cut-point of the list:
\* its arguments, its name stage_{k}_{cutpoint}um and its constraints
StageBuiltFrom(k) ==
  /\ stages[k].index = k - 1
  /\ stages[k].cutpoint = cutpoints[k]
  /\ stages[k].data.metadata.stage_name =
       <<"stage_">> \o IntStr(k) \o <<"_">> \o FloatStr(cutpoints[k]) \o <<"um">>
  /\ stages[k].data.constraints = StageConstraints(flow_rate, cutpoints[k]).value

\* the example of create_impactor.py: 4 LPM, cut-points 10, 5 and 2.5 um
ExampleCascade == flow_rate = 40 /\ cutpoints = <<100, 50, 25>>

\* C6: the stages of a cascade are generated in input order, the k-th from
\* the k-th cut-point and named stage_{k}_{cutpoint}um; a cascade that
\* completes has generated exactly one stage per cut-point, and the example
\* cascade (4 LPM, [10, 5, 2.5]) never fails in generation and completes
\* with the three stages stage_1_10.0um, stage_2_5.0um, stage_3_2.5um.
C6_CascadeOrdering ==
  /\ Len(stages) <= Len(cutpoints)
  /\ \A k \in 1 .. Len(stages) : StageBuiltFrom(k)
  /\ pc = "done" => Len(stages) = Len(cutpoints)
  /\ (ExampleCascade /\ pc = "failed") => error.exc = "OSError"
  /\ (ExampleCascade /\ pc = "done")
     => /\ Len(stages) = 3
        /\ stages[1].data.metadata.stage_name =
             <<"stage_", "1", "_", "1", "0", ".", "0", "um">>
        /\ stages[2].data.metadata.stage_name =
             <<"stage_", "2", "_", "5", ".", "0", "um">>
        /\ stages[3].data.metadata.stage_name =
             <<"stage_", "3", "_", "2", ".", "5", "um">>

\* C6 witness: the example cascade has completed with three stages
C6_Witness == ExampleCascade /\ pc = "done" /\ Len(stages) = 3

\* the stage the loop was at when the cascade failed
FailedLabel == StageLabel(i, cutpoints[i + 1])

\* C7 (as claimed): when stage k fails, no later stage has been generated
\* or exported, and the exception the caller receives names stage k.
C7_FailFastReportsStage ==
  pc = "failed"
  => /\ Len(stages) <= i + 1
     /\ \A f \in files : \E k \in 0 .. i : f.path[3] = StageLabel(k, cutpoints[k + 1])
     /\ \E n \in 1 .. Len(error.filename) : error.filename[n] = FailedLabel

\* 100 * |d - ref| <= ref: d is within 1% of ref
WithinOnePercent(d, ref) == 100 * Abs(d - ref) <= ref

\* the solver returned the constraints of flow 4.0 LPM, cut-point c, one
\* nozzle
ReferenceCall(c) ==
  /\ phys.out.status = "returned"
  /\ phys.flow_rate_lpm = 40
  /\ phys.target_cutpoint_microns = c
  /\ phys.nozzle_count = 1

\* C8 (as claimed): at 4.0 LPM with one nozzle, nozzle_diameter_mm is within
\* 1% of 3.87 mm for 5.0 um and within 1% of 6.14 mm for 10.0 um.
C8_ReferenceValues ==
  /\ ReferenceCall(50)
     => WithinOnePercent(Val(phys.out.value.nozzle_diameter_mm), 3870)
  /\ ReferenceCall(100)
     => WithinOnePercent(Val(phys.out.value.nozzle_diameter_mm), 6140)

\* C8 (amended): at 4.0 LPM with one nozzle, nozzle_diameter_mm is within
\* 1% of 3.79 mm for 5.0 um and within 1% of 6.01 mm for 10.0 um.
C8_ReferenceValuesAmended ==
  /\ ReferenceCall(50)
     => WithinOnePercent(Val(phys.out.value.nozzle_diameter_mm), 3790)
  /\ ReferenceCall(100)
     => WithinOnePercent(Val(phys.out.value.nozzle_diameter_mm), 6010)

\* C8 witness: the solver has returned the constraints of 4.0 LPM, 5.0 um
C8_Witness == ReferenceCall(50) /\ IsPositive(phys.out.value.nozzle_diameter_mm)

\* calculate_nozzle_diameter returned for valid inputs whose cut-point can
\* be doubled within the range of the model
ScalingCall ==
  /\ nozzle.out.status = "returned"
  /\ nozzle.flow_rate_lpm > 0
  /\ nozzle.target_cutpoint_microns > 0
  /\ 2 * nozzle.target_cutpoint_microns <= 100
  /\ nozzle.nozzle_count >= 1
  /\ nozzle.stk_50 > 0

Cube(x) == x * x * x

\* C9: with flow, nozzle count and constants fixed, doubling the cut-point
\* multiplies the cube of the nozzle diameter by 4: the diameters d1 (of c)
\* and d2 (of 2c), each the floor of the exact root at 1e-5 m, satisfy
\* 4 * d1^3 < (d2 + 1)^3 and d2^3 < 4 * (d1 + 1)^3.
C9_ScalingLaw ==
  ScalingCall
  => \A d2 \in {calculate_nozzle_diameter(DefaultSolver, nozzle.flow_rate_lpm,
                    2 * nozzle.target_cutpoint_microns, nozzle.nozzle_count,
                    nozzle.stk_50).value.mag} :
       /\ 4 * Cube(nozzle.out.value.mag) < Cube(d2 + 1)
       /\ Cube(d2) < 4 * Cube(nozzle.out.value.mag + 1)

\* C9 witness: the diameter of 4 LPM, 5 um, one nozzle, Stk50 0.24
C9_Witness ==
  /\ ScalingCall
  /\ nozzle.flow_rate_lpm = 40
  /\ nozzle.target_cutpoint_microns = 50
  /\ nozzle.out.value.mag = 378

\* get_geometric_constraints returned for positive flow and cut-point and
\* at least one nozzle
ValidSolve ==
  /\ phys.out.status = "returned"
  /\ phys.flow_rate_lpm > 0
  /\ phys.target_cutpoint_microns > 0
  /\ phys.nozzle_count >= 1

\* the Stokes number of a particle of the target cut-point, from the
\* solver's own nozzle diameter (back in metres) and jet velocity
SolverStk ==
  calculate_stk(phys.target_cutpoint_microns, phys.out.value.jet_velocity_ms.mag,
                phys.out.value.nozzle_diameter_mm.mag \div 10)

\* C10: for valid inputs the Stokes number recomputed from the solver's
\* nozzle diameter and jet velocity is within 0.01 of Stk50 = 0.24, and
\* verify_cutpoint.py, run for a target among its test sizes, prints PASS.
C10_StokesRoundTrip ==
  /\ ValidSolve => Abs(SolverStk - STK_50_IDEAL) < tolerance
  /\ (verify.out.status = "returned" /\ verify.flow > 0
        /\ \E k \in 1 .. Len(test_sizes) : test_sizes[k] = verify.target)
     => verify.out.value.result = "PASS"

\* C10 witness: the design point of verify_cutpoint.py, 0.8 LPM and 4 um
C10_Witness ==
  /\ ValidSolve
  /\ phys.flow_rate_lpm = 8
  /\ phys.target_cutpoint_microns = 40
  /\ phys.nozzle_count = 1
  /\ Abs(SolverStk - STK_50_IDEAL) < tolerance

\* the j-th and the k-th call of the session are the same call of
\* get_geometric_constraints: same arguments
SameSolve(j, k) ==
  /\ calls[j].op = "get_geometric_constraints"
  /\ calls[k].op = "get_geometric_constraints"
  /\ calls[j].args = calls[k].args

\* C11: no call of a solver method changes the solver's fields, and two
\* calls of get_geometric_constraints with identical arguments return
\* identical outcomes, whatever calls were made in between.
C11_Purity ==
  /\ solver = DefaultSolver
  /\ \A j \in 1 .. Len(calls) : \A k \in 1 .. Len(calls) :
       SameSolve(j, k) => calls[j].out = calls[k].out

\* C11 witness: the constraints of 4 LPM, 5 um were returned twice, with a
\* call of another method in between
C11_Witness ==
  /\ Len(calls) = 3
  /\ SameSolve(1, 3)
  /\ calls[1].args = <<40, 50, 1>>
  /\ calls[2].op = "calculate_reynolds"
  /\ calls[3].out.status = "returned"
  /\ Val(calls[3].out.value.nozzle_diameter_mm) = 3780

\* p is the product of d by the ratio r (in tenths), to the resolution of
\* 0.001 mm
IsProduct(p, d, r) ==
  /\ 10 * p.mag <= d.mag * r
  /\ d.mag * r < 10 * p.mag + 10
  /\ (p.mag > 0 => p.ph = d.ph)

\* the constraints k are those of the composer's defaults: jet-to-plate
\* distance 1.5 diameters, throat length one diameter
DefaultRatios(k) ==
  /\ IsProduct(k.jet_to_plate_mm, k.nozzle_diameter_mm, 15)
  /\ k.throat_length_mm = k.nozzle_diameter_mm

\* C12: in every constraint set the solver returns, jet_to_plate_mm is
\* nozzle_diameter_mm x s_w_ratio and throat_length_mm is
\* nozzle_diameter_mm x t_w_ratio; in the constraint set of every stage the
\* ratios are 1.5 and 1.0.
C12_RatioProducts ==
  /\ phys.out.status = "returned"
     => /\ IsProduct(phys.out.value.jet_to_plate_mm,
                     phys.out.value.nozzle_diameter_mm, phys.s_w_ratio)
        /\ IsProduct(phys.out.value.throat_length_mm,
                     phys.out.value.nozzle_diameter_mm, phys.t_w_ratio)
  /\ stage.out.status = "returned" => DefaultRatios(stage.out.value.constraints)
  /\ \A k \in 1 .. Len(stages) : DefaultRatios(stages[k].data.constraints)

\* C12 witness: 4 LPM, 5 um with S/W = 2.0 and T/W = 0.5 gave a diameter of
\* 3.78 mm, a jet-to-plate distance of 7.56 mm and a throat of 1.89 mm
C12_Witness ==
  /\ phys.out.status = "returned"
  /\ phys.s_w_ratio = 20
  /\ phys.t_w_ratio = 5
  /\ Val(phys.out.value.nozzle_diameter_mm) = 3780
  /\ Val(phys.out.value.jet_to_plate_mm) = 7560
  /\ Val(phys.out.value.throat_length_mm) = 1890

\* C13: for flow > 0, cut-point > 0 and at least one nozzle, every
\* constraint set returned has a positive nozzle diameter, jet velocity and
\* Reynolds number.
C13_PositiveOutputs ==
  ValidSolve
  => /\ IsPositive(phys.out.value.nozzle_diameter_mm)
     /\ IsPositive(phys.out.value.jet_velocity_ms)
     /\ IsPositive(phys.out.value.reynolds_number)

\* C13 witness: the constraints of 0.8 LPM, 2.5 um through two nozzles
C13_Witness ==
  /\ ValidSolve
  /\ phys.flow_rate_lpm = 8
  /\ phys.target_cutpoint_microns = 25
  /\ phys.nozzle_count = 2
  /\ IsPositive(phys.out.value.reynolds_number)

\* the solver was called with positive flow and cut-point and at least one
\* nozzle
ValidCall ==
  /\ phys.out.status # "none"
  /\ phys.flow_rate_lpm > 0
  /\ phys.target_cutpoint_microns > 0
  /\ phys.nozzle_count >= 1

\* the Reynolds number of the constraints k lies outside [500, 3000]
ReynoldsOutOfRange(k) ==
  Val(k.reynolds_number) < 500 \/ Val(k.reynolds_number) > 3000

\* the five physical quantities of a constraint set
PhysicalKeys ==
  {"nozzle_diameter_mm", "jet_velocity_ms", "reynolds_number",
   "jet_to_plate_mm", "throat_length_mm"}

\* C14 (as claimed): for valid inputs the solver returns the full
\* constraint set whatever the Reynolds number, and a Reynolds number
\* outside [500, 3000] is signalled by a warning flag in the result.
C14_ReynoldsAdvisoryFlagged ==
  ValidCall
  => /\ phys.out.status = "returned"
     /\ PhysicalKeys \subseteq DOMAIN phys.out.value
     /\ ReynoldsOutOfRange(phys.out.value)
        => \E key \in DOMAIN phys.out.value : key \notin PhysicalKeys

\* the body of the stage data d has the height jet_to_plate_mm + 10.0,
\* and the metadata report that height and the name `name`
StageBody(d, name) ==
  /\ d.metadata.body_height = Val(d.constraints.jet_to_plate_mm) + 10000
  /\ d.assembly.body.height = d.metadata.body_height
  /\ d.metadata.stage_name = name

\* C15: in every stage, body_height = jet_to_plate_mm + 10.0, the body is
\* built with that height, and the metadata hold that body_height and the
\* stage name the caller passed.
C15_BodyHeight ==
  /\ stage.out.status = "returned" => StageBody(stage.out.value, stage.stage_name)
  /\ \A k \in 1 .. Len(stages) :
       StageBody(stages[k].data,
                 <<"stage_">> \o IntStr(k) \o <<"_">> \o FloatStr(cutpoints[k])
                   \o <<"um">>)

\* C15 witness: the stage "refactored_test" of 4 LPM, 5 um: jet-to-plate
\* distance 5.67 mm, body height 15.67 mm
C15_Witness ==
  /\ stage.out.status = "returned"
  /\ stage.stage_name = <<"refactored_test">>
  /\ Val(stage.out.value.constraints.jet_to_plate_mm) = 5670
  /\ stage.out.value.assembly.body.height = 15670

\* the nozzle plate of the stage data d, built on profile p from the
\* constraints k, takes every dimension from p and k
StagePlate(p, d, k) ==
  /\ d.constraints = k
  /\ d.nozzle.diameter = p.female_socket_diameter
  /\ d.nozzle.thickness = Val(k.throat_length_mm)
  /\ d.nozzle.bore_diameter = Val(k.nozzle_diameter_mm)

\* C16: in every stage the nozzle plate has outer diameter
\* profile.female_socket_diameter, thickness throat_length_mm and bore
\* diameter nozzle_diameter_mm of the constraints solved for that stage.
C16_NozzlePlateDerived ==
  /\ stage.out.status = "returned"
     => StagePlate(profile, stage.out.value,
                   StageConstraints(stage.flow_rate_lpm,
                                    stage.target_cutpoint).value)
  /\ \A k \in 1 .. Len(stages) :
       StagePlate(profile, stages[k].data,
                  StageConstraints(flow_rate, cutpoints[k]).value)

\* C16 witness: a stage on the miniature profile: plate of 24.2 mm with a
\* bore of 3.78 mm
C16_Witness ==
  /\ stage.out.status = "returned"
  /\ profile = MINIATURE_25MM
  /\ stage.out.value.nozzle.diameter = 24200
  /\ stage.out.value.nozzle.bore_diameter = 3780
  /\ stage.out.value.nozzle.thickness = 3780

\* the cup and the struts of the stage data d, built on profile p
StageCupAndStruts(p, d) ==
  /\ d.assembly.cup.radius = 3 * Val(d.constraints.nozzle_diameter_mm)
  /\ d.assembly.struts.count = 3
  /\ d.assembly.struts.inner_radius = d.assembly.cup.radius
  /\ 2 * d.assembly.struts.outer_radius = p.inner_flow_diameter
  /\ d.assembly.struts.z_pos = d.metadata.cup_floor_z
  /\ d.assembly.cup.floor_bottom_z = d.assembly.struts.z_pos

\* C17: in every stage the cup radius is 3.0 x nozzle_diameter_mm and the
\* three struts are requested from the cup radius to
\* inner_flow_diameter / 2 at the height cup_floor_z the cup was moved to.
C17_CupAndStruts ==
  /\ stage.out.status = "returned" => StageCupAndStruts(profile, stage.out.value)
  /\ \A k \in 1 .. Len(stages) : StageCupAndStruts(profile, stages[k].data)

\* C17 witness: the second stage of a cascade at 4 LPM, cut-point 5 um:
\* cup radius 11.34 mm, struts out to 17 mm
C17_Witness ==
  /\ Len(stages) >= 2
  /\ flow_rate = 40
  /\ cutpoints[2] = 50
  /\ stages[2].data.assembly.cup.radius = 11340
  /\ stages[2].data.assembly.struts.outer_radius = 17000

\* the radial interval a strut bar covers: the Rectangle of width span
\* centred on the mid radius
BarFrom(st) == st.centre - st.span \div 2
BarTo(st) == st.centre + st.span \div 2

\* the struts st run from inner_radius to outer_radius with a margin of m
\* on each end
OverlapEachEnd(st, m) ==
  st.inner_radius <= st.outer_radius
  => /\ BarFrom(st) = st.inner_radius - m
     /\ BarTo(st) = st.outer_radius + m

\* C18 (as claimed): every strut covers the radial interval from
\* inner_radius - 2 to outer_radius + 2.
C18_OverlapTwoEachEnd ==
  /\ stage.out.status = "returned"
     => OverlapEachEnd(stage.out.value.assembly.struts, 2000)
  /\ \A k \in 1 .. Len(stages) :
       OverlapEachEnd(stages[k].data.assembly.struts, 2000)

\* C18 (amended): the span is outer_radius - inner_radius + 2, centred on
\* the mid radius: every strut covers the radial interval from
\* inner_radius - 1 to outer_radius + 1, a margin of 1 mm on each end.
C18_OverlapOneEachEnd ==
  /\ stage.out.status = "returned"
     => /\ OverlapEachEnd(stage.out.value.assembly.struts, 1000)
        /\ stage.out.value.assembly.struts.span =
             stage.out.value.assembly.struts.outer_radius
               - stage.out.value.assembly.struts.inner_radius + 2000
  /\ \A k \in 1 .. Len(stages) :
       OverlapEachEnd(stages[k].data.assembly.struts, 1000)

\* C18 witness: the struts of 4 LPM, 5 um on the standard profile, from
\* 11.34 mm to 17 mm: the bar runs from 10.34 mm to 18 mm
C18_Witness ==
  /\ stage.out.status = "returned"
  /\ stage.out.value.assembly.struts.inner_radius = 11340
  /\ stage.out.value.assembly.struts.outer_radius = 17000
  /\ BarFrom(stage.out.value.assembly.struts) = 10340
  /\ BarTo(stage.out.value.assembly.struts) = 18000

\* the cup of the stage data d is larger than the bore of profile p
OversizeCup(p, d) == 2 * d.assembly.cup.radius > p.inner_flow_diameter

\* C19 (as claimed): whenever the cup radius exceeds
\* inner_flow_diameter / 2, the strut span of that stage is non-positive.
C19_OversizeCupNonPositiveSpan ==
  (stage.out.status = "returned" /\ OversizeCup(profile, stage.out.value))
  => stage.out.value.assembly.struts.span <= 0

\* C19 (amended): the strut span is non-positive exactly when the cup
\* radius exceeds inner_flow_diameter / 2 by 2 mm or more; a cup that is
\* oversize by less than 2 mm has a positive span of less than 2 mm.
C19_SpanNonPositiveFromTwo ==
  stage.out.status = "returned"
  => /\ stage.out.value.assembly.struts.span <= 0
        <=> 2 * stage.out.value.assembly.cup.radius
              >= profile.inner_flow_diameter + 4000
     /\ (OversizeCup(profile, stage.out.value)
          /\ 2 * stage.out.value.assembly.cup.radius
                < profile.inner_flow_diameter + 4000)
        => /\ stage.out.value.assembly.struts.span > 0
           /\ stage.out.value.assembly.struts.span < 2000

\* C19 witness: 4 LPM, 10 um on the miniature profile: cup radius
\* 18.03 mm in a bore of radius 11 mm, span -5.03 mm
C19_Witness ==
  /\ stage.out.status = "returned"
  /\ profile = MINIATURE_25MM
  /\ OversizeCup(profile, stage.out.value)
  /\ stage.out.value.assembly.cup.radius = 18030
  /\ stage.out.value.assembly.struts.span = -5030

\* the outcomes of the call th made alone on the agent it was called on,
\* one for each choice of the kernel
AloneOutcomes(th) ==
  {generate_impactor_stage(th.entry, th.flow_rate_lpm, th.target_cutpoint,
                           th.stage_name, kernel_accepts) :
     kernel_accepts \in BOOLEAN}

\* C20: an attempted assignment to a field of a CassetteProfile fails and
\* leaves the profile as it was; a generate_impactor_stage call that has
\* ended leaves the agent's profile and solver as they were when it was
\* called; and every call that ended among interleaved calls on one agent
\* has an outcome it has when made alone.
C20_NoSharedMutableState ==
  /\ attempt.status # "none"
     => /\ attempt.status = "raised"
        /\ attempt.exc = "FrozenInstanceError"
        /\ attempt.after = attempt.before
  /\ \A t \in Threads :
       threads[t].pc \in {"done", "failed"}
       => /\ SharedAgent = threads[t].entry
          /\ threads[t].out \in AloneOutcomes(threads[t])

\* C20 witness: on one agent, the stage of 5 um has been returned while
\* the stage of 10 um is still being built, after an assignment to the
\* shared profile was attempted
C20_Witness ==
  /\ attempt.status = "raised"
  /\ threads[1].pc = "done"
  /\ threads[1].target_cutpoint = 50
  /\ threads[1].out.status = "returned"
  /\ threads[2].pc = "assemble"
  /\ threads[2].target_cutpoint = 100
  /\ threads[2].entry = threads[1].entry

\* the diameters of profile p nest: bore inside boss and socket, both
\* inside the housing, every dimension positive
ProfileOrdered(p) ==
  /\ p.inner_flow_diameter < p.male_boss_diameter
  /\ p.male_boss_diameter < p.outer_diameter
  /\ p.inner_flow_diameter < p.female_socket_diameter
  /\ p.female_socket_diameter < p.outer_diameter
  /\ \A field \in ProfileFields : p[field] > 0

\* C21: the profile of every agent built on STANDARD_37MM or
\* MINIATURE_25MM satisfies inner_flow_diameter < male_boss_diameter <
\* outer_diameter and inner_flow_diameter < female_socket_diameter <
\* outer_diameter, with all six dimensions positive.
C21_ProfileOrdering ==
  profile \in {STANDARD_37MM, MINIATURE_25MM} => ProfileOrdered(profile)

\* C21 witness: a stage call on an agent built on MINIATURE_25MM
C21_Witness ==
  /\ stage.out.status = "returned"
  /\ profile.outer_diameter = 26000
  /\ profile.female_socket_diameter = 24200
  /\ profile.inner_flow_diameter = 22000

\* the stage data d, its name apart, are those of a stand-alone call for
\* flow f and cut-point c on a fresh agent on profile p
SameAsAlone(d, p, f, c) ==
  \E alone \in {generate_impactor_stage(AgenticCADSystem(p), f, c,
                     d.metadata.stage_name, TRUE)} :
    /\ alone.status = "returned"
    /\ d.constraints = alone.value.constraints
    /\ d.assembly = alone.value.assembly
    /\ d.nozzle = alone.value.nozzle
    /\ d.metadata.body_height = alone.value.metadata.body_height
    /\ d.metadata.cup_floor_z = alone.value.metadata.cup_floor_z

\* C22: every stage of a cascade has the constraints and dimensions of a
\* stand-alone generate_impactor_stage call for (STANDARD_37MM, flow rate,
\* its cut-point), whatever the other cut-points, their order and the
\* stages the agent generated before.
C22_StageIndependence ==
  \A k \in 1 .. Len(stages) :
    SameAsAlone(stages[k].data, STANDARD_37MM, flow_rate, cutpoints[k])

\* C22 witness: a cascade at 4 LPM whose third stage repeats the cut-point
\* of the first, 5 um, after a stage of 10 um
C22_Witness ==
  /\ Len(stages) = 3
  /\ flow_rate = 40
  /\ cutpoints = <<50, 100, 50>>
  /\ stages[3].data.assembly = stages[1].data.assembly
  /\ stages[3].data.assembly # stages[2].data.assembly

\* the gap of the stage data d between the nozzle exit plane and the top
\* face of the cup floor is jet_to_plate_mm
GapIsS(d) ==
  d.assembly.body.socket_floor_z - d.assembly.cup.floor_top_z
    = Val(d.constraints.jet_to_plate_mm)

\* C23 (as claimed): in every stage the gap between nozzle_exit_z and the
\* impaction surface, the top face of the moved cup's floor, equals
\* jet_to_plate_mm.
C23_GapToImpactionSurface ==
  /\ stage.out.status = "returned" => GapIsS(stage.out.value)
  /\ \A k \in 1 .. Len(stages) : GapIsS(stages[k].data)

\* the cup floor height of the stage data d, built on profile p
FloorHeightFixed(p, d) ==
  /\ d.metadata.cup_floor_z = 10000 - p.interface_height
  /\ d.assembly.cup.floor_bottom_z = d.metadata.cup_floor_z
  /\ d.assembly.body.socket_floor_z
       = d.metadata.cup_floor_z + Val(d.constraints.jet_to_plate_mm)
  /\ d.assembly.body.socket_floor_z > d.metadata.cup_floor_z

\* C24: for every flow rate and cut-point, cup_floor_z = 10.0 -
\* interface_height (5.0 on STANDARD_37MM, 7.0 on MINIATURE_25MM), and
\* nozzle_exit_z = cup_floor_z + jet_to_plate_mm lies strictly above it.
C24_CupFloorHeight ==
  /\ stage.out.status = "returned"
     => /\ FloorHeightFixed(profile, stage.out.value)
        /\ profile = STANDARD_37MM => stage.out.value.metadata.cup_floor_z = 5000
        /\ profile = MINIATURE_25MM => stage.out.value.metadata.cup_floor_z = 7000
  /\ \A k \in 1 .. Len(stages) :
       /\ FloorHeightFixed(profile, stages[k].data)
       /\ stages[k].data.metadata.cup_floor_z = 5000

\* C24 witness: 0.8 LPM, 2.5 um on the miniature profile: cup floor at
\* 7 mm, nozzle exit 2.085 mm above it
C24_Witness ==
  /\ stage.out.status = "returned"
  /\ profile = MINIATURE_25MM
  /\ stage.flow_rate_lpm = 8
  /\ stage.target_cutpoint = 25
  /\ stage.out.value.metadata.cup_floor_z = 7000
  /\ stage.out.value.assembly.body.socket_floor_z = 9085

\* the constraints of the stage data d, for flow f and cut-point c, are
\* those solved for as many nozzles as its plate has bores, which is 1
BoresMatchSolve(d, f, c) ==
  /\ d.nozzle.bores = 1
  /\ \E k \in {get_geometric_constraints(DefaultSolver, f, c, d.nozzle.bores,
                    S_W_RATIO_DEFAULT, T_W_RATIO_DEFAULT)} :
       k.status = "returned" /\ d.constraints = k.value

\* C25: in every stage the nozzle count the diameter was solved for equals
\* the number of bores of the stage's nozzle plate, and both are 1.
C25_NozzleCountAgrees ==
  /\ stage.out.status = "returned"
     => BoresMatchSolve(stage.out.value, stage.flow_rate_lpm,
                        stage.target_cutpoint)
  /\ \A k \in 1 .. Len(stages) :
       BoresMatchSolve(stages[k].data, flow_rate, cutpoints[k])

\* C25 witness: the stage of 4 LPM, 10 um: one bore of 6.01 mm
C25_Witness ==
  /\ stage.out.status = "returned"
  /\ stage.target_cutpoint = 100
  /\ stage.out.value.nozzle.bores = 1
  /\ stage.out.value.nozzle.bore_diameter = 6010

\* the label of the k-th stage (k from 1) of the running cascade
LabelOf(k) == StageLabel(k - 1, cutpoints[k])

\* the files exported while the cascade is at its present position: two
\* for each stage exported in full, one more once the body of stage i is
\* written
FilesExported ==
  2 * i + (IF pc = "export_nozzle" THEN 1 ELSE 0)

\* C26: the stage labels of one cascade run are pairwise distinct, also
\* for repeated cut-points, so are the stage directories, and no export
\* has overwritten a file of the same run: every export made is a file.
C26_DistinctLabels ==
  pc # "idle"
  => /\ \A j \in 1 .. Len(cutpoints) : \A k \in 1 .. Len(cutpoints) :
          j # k => /\ LabelOf(j) # LabelOf(k)
                   /\ StageDir(flow_rate, cutpoints, j - 1)
                        # StageDir(flow_rate, cutpoints, k - 1)
     /\ \A f \in files : \A g \in files : f.path = g.path => f = g
     /\ (pc # "failed" => Cardinality(files) = FilesExported)

\* C26 witness: a completed cascade over the cut-points 5, 5, 5 um with
\* six files
C26_Witness ==
  /\ pc = "done"
  /\ cutpoints = <<50, 50, 50>>
  /\ Cardinality(files) = 6

\* both files of the j-th stage (j from 1) are there, holding its solids
ExportedInFull(j) ==
  /\ [path |-> BodyPath(StageDir(flow_rate, cutpoints, j - 1),
                        stages[j].data.metadata.stage_name),
      solid |-> stages[j].data.assembly] \in files
  /\ [path |-> NozzlePath(StageDir(flow_rate, cutpoints, j - 1),
                          stages[j].data.metadata.stage_name),
      solid |-> stages[j].data.nozzle] \in files

\* C27: generation and export alternate: at every position of the
\* cascade, also after a failure, each of the i stages before the current
\* one has been generated and has both its files in place with its own
\* solids, and a stage is generated only when all earlier ones are
\* exported (at most one stage is generated and not yet fully exported).
C27_ExportBeforeNext ==
  /\ i <= Len(stages)
  /\ Len(stages) <= i + 1
  /\ \A j \in 1 .. i : ExportedInFull(j)
  /\ (pc \in {"loop", "done"} => Len(stages) = i)

\* C27 witness: the third stage failed in export after the first two were
\* exported in full
C27_Witness ==
  /\ pc = "failed"
  /\ i = 2
  /\ Len(stages) = 3
  /\ error.exc = "OSError"
  /\ ExportedInFull(1)
  /\ ExportedInFull(2)

\* C28: a run of export_batch picks a version number strictly greater than
\* the number of every folder v<N>_... already in the directory, the folder
\* it creates is not one of them, and no two folders of the directory
\* carry the same version number
C28_VersionsStrictlyIncrease ==
  /\ export.status = "ran" =>
       /\ \A d \in export.before : HasVersion(d) => VersionOf(d) < export.next_v
       /\ export.folder \notin export.before
       /\ export.folder \in Names(iterations)
       /\ HasVersion(export.folder) /\ VersionOf(export.folder) = export.next_v
  /\ Cardinality({VersionOf(f.name) : f \in iterations}) = Cardinality(iterations)

\* a run creates v100_... in a directory that holds v56..v99 from two scripts
C28_Witness ==
  /\ export.status = "ran"
  /\ export.next_v = 100
  /\ \E d \in export.before, e \in export.before : d[Len(d)] # e[Len(e)]

\* C29: the folder show_latest and load_latest_source select is the folder
\* with the greatest version number among the folders of the directory
C29_LatestIsGreatestVersion ==
  shown.status = "selected" =>
    \A d \in shown.among : VersionOf(d) <= VersionOf(shown.folder)

\* C30: the runner load_latest_source writes holds no call of export_batch,
\* and the directory holds the same folders after the replay as before it
C30_ViewingNeverExports ==
  replay.status = "ran" =>
    /\ \A k \in 1..Len(replay.runner) : ~CallsExport(replay.runner[k])
    /\ replay.after = replay.before

=============================================================================
